---- MODULE Spec2Model ----
(***************************************************************************)
(* PPTist-backend fixture builders.                                        *)
(*                                                                         *)
(*   "A"  scripts/create-test-pptx.py          -> tests/fixtures/simple.pptx*)
(*   "B"  tests/fixtures/create_simple_pptx.py -> simple.pptx              *)
(*                                                                         *)
(* A run of a script is a straight-line program over the python-pptx       *)
(* object model.  The model executes it statement by statement: ip is the  *)
(* next statement of Prog(script), every statement that calls into the     *)
(* library may raise, and a raised exception is dispatched the way the     *)
(* script's own try/except (or the absence of one) dispatches it.          *)
(* Non-ASCII literals of the sources are written as their code points      *)
(* ("U+6D4B ...").  Lengths are EMU, as python-pptx stores them.           *)
(***************************************************************************)
EXTENDS Integers, Sequences, FiniteSets, TLC

VARIABLES
    script,     \* which of the two scripts this process runs
    run,        \* ordinal of the invocation from the same working directory
    installed,  \* whether `import pptx` can be resolved
    disk,       \* what the output directory lets prs.save do
    fs,         \* path -> file content
    pc,         \* "running" | "raised" | "done"
    ip,         \* index of the next statement of Prog(script)
    prs,        \* the Presentation object
    refs,       \* local variables bound to library objects
    ints,       \* local variables left / top / width / height
    err,        \* the exception in flight (or the one that ended the run)
    out,        \* lines written to sys.stdout
    errout,     \* lines written to sys.stderr
    exit,       \* process exit status, -1 while running
    encoding,   \* encoding of the text layer bound to sys.stdout
    log         \* library calls made by this run, in order

vars == <<script, run, installed, disk, fs, pc, ip, prs, refs, ints, err,
          out, errout, exit, encoding, log>>

\* ---------------------------------------------------------------- bounds
MaxRuns == 2

\* ---------------------------------------------------------------- units
EMU_PER_INCH == 914400
EMU_PER_PT == 12700

\* Inches(x) = int(x * 914400); the argument is given in tenths of an inch
\* so that Inches(7.5) and Inches(1.5) are expressible.
Inches(tenths) == (tenths * EMU_PER_INCH) \div 10

Pt(points) == points * EMU_PER_PT

RGBColor(r, g, b) == <<r, g, b>>

\* ---------------------------------------------------------------- values
NoneInt == -1
NoneRGB == <<>>

NoRef == [slide |-> 0, ph |-> -1, shape |-> 0, para |-> 0]

SlideRef(i) == [NoRef EXCEPT !.slide = i]

NoErr == [cls |-> "", msg |-> "", line |-> 0]

EmptyPara == [text |-> "", size |-> NoneInt, bold |-> "None", level |-> 0]

\* Placeholder idx values of the default template's layouts used by the
\* scripts: 0 Title Slide (title, subtitle), 1 Title and Content (title,
\* body), 5 Title Only (title).
LayoutPlaceholders(layout) ==
    CASE layout = 0 -> {0, 1}
      [] layout = 1 -> {0, 1}
      [] layout = 5 -> {0}
      [] OTHER -> {}

\* Presentation(): the default template, 10in x 7.5in, no slides.
Presentation ==
    [created |-> TRUE, slide_width |-> 9144000, slide_height |-> 6858000,
     slides |-> <<>>]

NoPrs ==
    [created |-> FALSE, slide_width |-> 0, slide_height |-> 0, slides |-> <<>>]

\* ------------------------------------------------------- library mutators
\* Each takes the document and returns the document after the call.

add_slide_replaces(d, layout) ==
    [d EXCEPT !.slides =
        <<[layout |-> layout,
           ph |-> [i \in LayoutPlaceholders(layout) |-> ""],
           shapes |-> <<>>]>>]

\* prs.slides.add_slide(layout): the new slide goes to the end of the
\* ordered slide sequence, its placeholders cloned (empty) from the layout.
add_slide(d, layout) ==
    [d EXCEPT !.slides =
        Append(@, [layout |-> layout,
                   ph |-> [i \in LayoutPlaceholders(layout) |-> ""],
                   shapes |-> <<>>])]

NewShape(kind, left, top, width, height) ==
    [kind |-> kind, left |-> left, top |-> top, width |-> width,
     height |-> height, word_wrap |-> "None",
     paras |-> <<EmptyPara>>,
     fill |-> "None", fill_rgb |-> NoneRGB,
     line_rgb |-> NoneRGB, line_width |-> NoneInt]

add_shape_swaps_size(d, r, kind, g) ==
    [d EXCEPT !.slides[r.slide].shapes =
        Append(@, NewShape(kind, g.left, g.top, g.height, g.width))]

\* shapes.add_textbox(left, top, width, height) and
\* shapes.add_shape(MSO_SHAPE.RECTANGLE, left, top, width, height): the
\* shape is appended to the shape tree of the slide r refers to, its
\* geometry read from the locals g.
add_shape(d, r, kind, g) ==
    [d EXCEPT !.slides[r.slide].shapes =
        Append(@, NewShape(kind, g.left, g.top, g.width, g.height))]

set_text_first_slide(d, r, s) ==
    IF r.ph >= 0
    THEN [d EXCEPT !.slides[1].ph[r.ph] = s]
    ELSE [d EXCEPT !.slides[r.slide].shapes[r.shape].paras[r.para].text = s]

\* <placeholder>.text = s   /   <paragraph>.text = s
set_text(d, r, s) ==
    IF r.ph >= 0
    THEN [d EXCEPT !.slides[r.slide].ph[r.ph] = s]
    ELSE [d EXCEPT !.slides[r.slide].shapes[r.shape].paras[r.para].text = s]

\* text_frame.word_wrap = True
set_word_wrap(d, r) ==
    [d EXCEPT !.slides[r.slide].shapes[r.shape].word_wrap = "True"]

\* text_frame.add_paragraph()
add_paragraph(d, r) ==
    [d EXCEPT !.slides[r.slide].shapes[r.shape].paras = Append(@, EmptyPara)]

\* p.font.size = Pt(n)
set_font_size(d, r, n) ==
    [d EXCEPT !.slides[r.slide].shapes[r.shape].paras[r.para].size = n]

\* p.font.bold = True
set_font_bold(d, r) ==
    [d EXCEPT !.slides[r.slide].shapes[r.shape].paras[r.para].bold = "True"]

\* p.level = n
set_level(d, r, n) ==
    [d EXCEPT !.slides[r.slide].shapes[r.shape].paras[r.para].level = n]

\* shape.fill.solid()
fill_solid(d, r) ==
    [d EXCEPT !.slides[r.slide].shapes[r.shape].fill = "solid"]

\* shape.fill.fore_color.rgb = RGBColor(...)
set_fill_rgb(d, r, c) ==
    [d EXCEPT !.slides[r.slide].shapes[r.shape].fill_rgb = c]

\* shape.line.color.rgb = RGBColor(...)
set_line_rgb(d, r, c) ==
    [d EXCEPT !.slides[r.slide].shapes[r.shape].line_rgb = c]

\* shape.line.width = Pt(n)
set_line_width(d, r, n) ==
    [d EXCEPT !.slides[r.slide].shapes[r.shape].line_width = n]

\* ---------------------------------------------------------------- programs
\* One record per executed statement: the source line, the operation, the
\* local it binds (dst), the local it acts on (src), and its literal
\* arguments (n numeric, s string, rgb colour).
Ins(line, op, dst, src, n, s) ==
    [line |-> line, op |-> op, dst |-> dst, src |-> src, n |-> n, s |-> s,
     rgb |-> NoneRGB]

InsRGB(line, op, src, c) ==
    [line |-> line, op |-> op, dst |-> "", src |-> src, n |-> 0, s |-> "",
     rgb |-> c]

\* scripts/create-test-pptx.py
ScriptA ==
    << Ins(6,  "import", "", "", 0, "pptx"),
       Ins(7,  "import", "", "", 0, "pptx.util"),
       Ins(8,  "import", "", "", 0, "pptx.dml.color"),
       Ins(9,  "import", "", "", 0, "pptx.enum.shapes"),
       Ins(14, "wrap_stdout", "", "", 0, "utf-8"),
       Ins(20, "Presentation", "prs", "", 0, ""),
       Ins(21, "set_slide_width", "", "prs", Inches(100), ""),
       Ins(22, "set_slide_height", "", "prs", Inches(75), ""),
       Ins(25, "add_slide", "title_slide", "prs", 0, ""),
       Ins(26, "get_title", "title", "title_slide", 0, ""),
       Ins(27, "get_placeholder", "subtitle", "title_slide", 1, ""),
       Ins(29, "set_text", "", "title", 0, "PPTX to JSON Conversion Test"),
       Ins(30, "set_text", "", "subtitle", 0, "End-to-End Integration Test"),
       Ins(33, "add_slide", "content_slide", "prs", 5, ""),
       Ins(36, "get_title", "title_shape", "content_slide", 0, ""),
       Ins(37, "set_text", "", "title_shape", 0, "Test Elements"),
       Ins(40, "let", "left", "", Inches(10), ""),
       Ins(41, "let", "top", "", Inches(20), ""),
       Ins(42, "let", "width", "", Inches(30), ""),
       Ins(43, "let", "height", "", Inches(10), ""),
       Ins(44, "add_textbox", "textbox", "content_slide", 0, ""),
       Ins(45, "get_text_frame", "text_frame", "textbox", 0, ""),
       Ins(46, "set_word_wrap", "", "text_frame", 0, ""),
       Ins(48, "get_paragraph", "p", "text_frame", 0, ""),
       Ins(49, "set_text", "", "p", 0, "This is a test text box"),
       Ins(50, "set_font_size", "", "p", Pt(18), ""),
       Ins(53, "let", "left", "", Inches(50), ""),
       Ins(54, "let", "top", "", Inches(20), ""),
       Ins(55, "let", "width", "", Inches(20), ""),
       Ins(56, "let", "height", "", Inches(15), ""),
       Ins(57, "add_shape", "shape", "content_slide", 0, "RECTANGLE"),
       Ins(64, "fill_solid", "", "shape", 0, ""),
       InsRGB(65, "set_fill_rgb", "shape", RGBColor(112, 192, 0)),
       InsRGB(66, "set_line_rgb", "shape", RGBColor(0, 0, 0)),
       Ins(67, "set_line_width", "", "shape", Pt(1), ""),
       Ins(70, "let", "left", "", Inches(10), ""),
       Ins(71, "let", "top", "", Inches(40), ""),
       Ins(72, "let", "width", "", Inches(60), ""),
       Ins(73, "let", "height", "", Inches(10), ""),
       Ins(74, "add_textbox", "textbox2", "content_slide", 0, ""),
       Ins(75, "get_text_frame", "text_frame2", "textbox2", 0, ""),
       Ins(76, "get_paragraph", "p2", "text_frame2", 0, ""),
       Ins(77, "set_text", "", "p2", 0, "Element 2: Another text box"),
       Ins(78, "set_font_size", "", "p2", Pt(14), ""),
       Ins(79, "set_font_bold", "", "p2", 0, ""),
       Ins(83, "save", "", "prs", 0, "tests/fixtures/simple.pptx"),
       Ins(85, "print", "", "", 0, "ok_path"),
       Ins(86, "print", "", "", 0, "slide_count"),
       Ins(87, "print", "", "", 0, "file_size"),
       Ins(89, "return", "", "", 0, "") >>

\* tests/fixtures/create_simple_pptx.py
ScriptB ==
    << Ins(5,  "import", "", "", 0, "pptx"),
       Ins(6,  "import", "", "", 0, "pptx.util"),
       Ins(9,  "Presentation", "prs", "", 0, ""),
       Ins(10, "set_slide_width", "", "prs", Inches(100), ""),
       Ins(11, "set_slide_height", "", "prs", Inches(75), ""),
       Ins(14, "get_layout", "slide_layout", "prs", 0, ""),
       Ins(15, "add_slide", "slide", "prs", 0, "slide_layout"),
       Ins(18, "get_title", "title", "slide", 0, ""),
       Ins(19, "set_text", "", "title", 0,
           "U+6D4B U+8BD5 U+6F14 U+793A U+6587 U+7A3F"),
       Ins(22, "get_placeholder", "subtitle", "slide", 1, ""),
       Ins(23, "set_text", "", "subtitle", 0,
           "U+8FD9 U+662F U+4E00 U+4E2A U+7B80 U+5355 U+7684 U+6D4B U+8BD5 PPTX"),
       Ins(26, "get_layout", "bullet_slide_layout", "prs", 1, ""),
       Ins(27, "add_slide", "slide", "prs", 0, "bullet_slide_layout"),
       Ins(30, "get_shapes", "shapes", "slide", 0, ""),
       Ins(31, "get_title", "title_shape", "shapes", 0, ""),
       Ins(32, "set_text", "", "title_shape", 0,
           "U+4E3B U+8981 U+5185 U+5BB9"),
       Ins(35, "let", "left", "", Inches(10), ""),
       Ins(36, "let", "top", "", Inches(20), ""),
       Ins(37, "let", "width", "", Inches(80), ""),
       Ins(38, "let", "height", "", Inches(40), ""),
       Ins(40, "add_textbox", "textbox", "shapes", 0, ""),
       Ins(41, "get_text_frame", "text_frame", "textbox", 0, ""),
       Ins(42, "set_word_wrap", "", "text_frame", 0, ""),
       Ins(45, "get_paragraph", "p", "text_frame", 0, ""),
       Ins(46, "set_text", "", "p", 0,
           "U+8FD9 U+662F U+7B2C U+4E00 U+884C U+6587 U+672C"),
       Ins(47, "set_font_size", "", "p", Pt(18), ""),
       Ins(49, "add_paragraph", "p", "text_frame", 0, ""),
       Ins(50, "set_text", "", "p", 0,
           "U+8FD9 U+662F U+7B2C U+4E8C U+884C U+6587 U+672C"),
       Ins(51, "set_font_size", "", "p", Pt(18), ""),
       Ins(52, "set_level", "", "p", 1, ""),
       Ins(54, "add_paragraph", "p", "text_frame", 0, ""),
       Ins(55, "set_text", "", "p", 0,
           "U+8FD9 U+662F U+7B2C U+4E09 U+884C U+6587 U+672C"),
       Ins(56, "set_font_size", "", "p", Pt(18), ""),
       Ins(59, "save", "", "prs", 0, "simple.pptx"),
       Ins(60, "print", "", "", 0, "created") >>

Prog_saves_twice(sc) ==
    LET P == IF sc = "A" THEN ScriptA ELSE ScriptB
        k == CHOOSE i \in 1..Len(P) : P[i].op = "save"
    IN  SubSeq(P, 1, k) \o SubSeq(P, k, Len(P))

\* The statements a run of the script executes, in order.
Prog(sc) == IF sc = "A" THEN ScriptA ELSE ScriptB

Scripts == {"A", "B"}

\* The path each script saves to (A: line 82, B: line 59).
OutputPath(sc) ==
    IF sc = "A" THEN "tests/fixtures/simple.pptx" ELSE "simple.pptx"

Paths == {OutputPath(sc) : sc \in Scripts}

RefNames ==
    {"title_slide", "title", "subtitle", "content_slide", "title_shape",
     "textbox", "text_frame", "p", "shape", "textbox2", "text_frame2", "p2",
     "slide", "shapes"}

IntNames ==
    {"left", "top", "width", "height", "slide_layout", "bullet_slide_layout"}

\* Whether the statement at `line` executes inside a try block of the
\* script: only the call create_test_pptx() of script A (line 93), that is
\* the function body, lines 16-89.  Script B has no try statement.
InTry(sc, line) == sc = "A" /\ line >= 16 /\ line <= 89

\* ---------------------------------------------------------------- the file
\* A .pptx file is a package of parts.  The model keeps the parts that
\* carry the logical document: the presentation part (page size, ordered
\* slide id list) and one part per slide.  Every part carries the
\* modification stamp the zip writer gives it, which differs between runs.
PresentationPart(d, stamp) ==
    [name |-> "ppt/presentation.xml", no |-> 0,
     sz |-> <<d.slide_width, d.slide_height>>,
     ids |-> [i \in 1..Len(d.slides) |-> i],
     slide |-> [layout |-> -1, ph |-> <<>>, shapes |-> <<>>],
     stamp |-> stamp]

SlidePart(d, i, stamp) ==
    [name |-> "ppt/slides/slide.xml", no |-> i,
     sz |-> <<>>, ids |-> <<>>,
     slide |-> d.slides[i],
     stamp |-> stamp]

Package(d, stamp) ==
    <<PresentationPart(d, stamp)>> \o
    [i \in 1..Len(d.slides) |-> SlidePart(d, i, stamp)]

\* Presentation(path): the logical document read back from a package.
Reopen(parts) ==
    LET pres == parts[1]
        part(i) == CHOOSE q \in 1..Len(parts) :
                      /\ parts[q].name = "ppt/slides/slide.xml"
                      /\ parts[q].no = pres.ids[i]
    IN  [created |-> TRUE,
         slide_width |-> pres.sz[1], slide_height |-> pres.sz[2],
         slides |-> [i \in 1..Len(pres.ids) |-> parts[part(i)].slide]]

Absent == [exists |-> FALSE, parts |-> <<>>]

File(parts) == [exists |-> TRUE, parts |-> parts]

\* Whether a file holds every part its presentation part lists.
Complete(f) ==
    /\ f.exists
    /\ Len(f.parts) >= 1
    /\ Len(f.parts) = 1 + Len(f.parts[1].ids)

Disks == {"ok", "unwritable", "full"}

save_exclusive(f, d, dsk, stamp, k) ==
    IF f.exists
    THEN [file |-> f, cls |-> "FileExistsError", msg |-> "File exists"]
    ELSE [file |-> File(Package(d, stamp)), cls |-> "", msg |-> ""]

save_swallows_errors(f, d, dsk, stamp, k) ==
    CASE dsk = "ok" ->
            [file |-> File(Package(d, stamp)), cls |-> "", msg |-> ""]
      [] dsk = "unwritable" ->
            [file |-> f, cls |-> "", msg |-> ""]
      [] OTHER ->
            [file |-> File(SubSeq(Package(d, stamp), 1, k)),
             cls |-> "", msg |-> ""]

\* prs.save(path) on a path holding f.  The library opens the path for
\* writing, which truncates whatever was there, and streams the parts.
\*   ok          every part is written.
\*   unwritable  the open fails (missing directory, no permission): the
\*               path is not touched.
\*   full        the write fails after k parts.
\* cls = "" means the call returned.
save(f, d, dsk, stamp, k) ==
    CASE dsk = "ok" ->
            [file |-> File(Package(d, stamp)), cls |-> "", msg |-> ""]
      [] dsk = "unwritable" ->
            [file |-> f, cls |-> "PermissionError",
             msg |-> "Permission denied"]
      [] OTHER ->
            [file |-> File(SubSeq(Package(d, stamp), 1, k)),
             cls |-> "OSError", msg |-> "No space left on device"]

\* ------------------------------------------------------------ exceptions
\* Exception classes a library call is taken to raise; all derive from
\* Exception.
ErrClasses == {"ImportError", "ValueError"}

Msgs == {"boom", "bad value"}

\* isinstance(e, ImportError)
IsImportError(cls) == cls \in {"ImportError", "ModuleNotFoundError"}

\* traceback.print_exc() and the interpreter's report of an uncaught
\* exception both write the trace to stderr.
Traceback(e) == <<"Traceback (most recent call last):", e.cls, e.msg>>

\* except ImportError: two prints.
except_ImportError(o) ==
    o \o << <<"[ERROR] Need to install python-pptx">>,
            <<"   Run: pip install python-pptx">> >>

except_Exception_no_detail(e, o) ==
    Append(o, <<"[ERROR] Failed to create file: ">>)

\* except Exception as e: print(f"[ERROR] Failed to create file: {e}")
except_Exception(e, o) ==
    Append(o, <<"[ERROR] Failed to create file: ", e.msg>>)

handler_fs_cleanup(f, sc) == [f EXCEPT ![OutputPath(sc)] = Absent]

\* What the except clauses do to the file system: nothing.
handler_fs(f, sc) == f

\* ---------------------------------------------------------------- printing
\* A printed line is the sequence of the fragments its (f-)string is made
\* of; the literal of script B's print is split at the file name.
PrintLine(sc, which, d) ==
    CASE which = "ok_path" ->
            <<"[OK] Successfully created test PPTX file: ", OutputPath(sc)>>
      [] which = "slide_count" ->
            <<"   Slide count: ", ToString(Len(d.slides))>>
      [] which = "file_size" ->
            <<"   File size: ~", ToString(Len(d.slides)),
              " slides with basic elements">>
      [] OTHER ->
            <<"simple.pptx", " created successfully">>

\* ------------------------------------------------------------------ state
OldDoc == add_slide(Presentation, 0)

\* What the output path may hold before the first run: nothing, a complete
\* file of some earlier build, or the remains of an interrupted one.
InitFiles ==
    {Absent, File(Package(OldDoc, 0)), File(SubSeq(Package(OldDoc, 0), 1, 1))}

\* A fresh interpreter: nothing imported, nothing bound, nothing printed.
Init ==
    /\ script \in Scripts
    /\ run = 1
    /\ installed \in BOOLEAN
    /\ disk \in Disks
    /\ fs \in [Paths -> InitFiles]
    /\ pc = "running"
    /\ ip = 1
    /\ prs = NoPrs
    /\ refs = [v \in RefNames |-> NoRef]
    /\ ints = [v \in IntNames |-> 0]
    /\ err = NoErr
    /\ out = <<>>
    /\ errout = <<>>
    /\ exit = -1
    /\ encoding = "locale"
    /\ log = <<>>

Cur == Prog(script)[ip]

At(op) == pc = "running" /\ ip <= Len(Prog(script)) /\ Cur.op = op

Logged(ref) == Append(log, [op |-> Cur.op, line |-> Cur.line, ref |-> ref])

env == <<script, run, installed, disk>>
io == <<out, errout, exit, encoding>>

\* A statement that only binds a library object to a local.
Bind(r) ==
    /\ refs' = [refs EXCEPT ![Cur.dst] = r]
    /\ ip' = ip + 1
    /\ UNCHANGED <<env, fs, pc, prs, ints, err, io, log>>

\* A statement that changes the document through the object bound to src.
Mutate(d) ==
    /\ prs' = d
    /\ log' = Logged(refs[Cur.src])
    /\ ip' = ip + 1
    /\ UNCHANGED <<env, fs, pc, refs, ints, err, io>>

\* ----------------------------------------------------------------- actions
ImportOk ==
    /\ At("import") /\ installed
    /\ ip' = ip + 1
    /\ UNCHANGED <<env, fs, pc, prs, refs, ints, err, io, log>>

ImportFails ==
    /\ At("import") /\ ~installed
    /\ err' = [cls |-> "ModuleNotFoundError",
               msg |-> "No module named 'pptx'", line |-> Cur.line]
    /\ pc' = "raised"
    /\ UNCHANGED <<env, fs, ip, prs, refs, ints, io, log>>

WrapStdout ==
    /\ At("wrap_stdout")
    /\ encoding' = Cur.s
    /\ ip' = ip + 1
    /\ UNCHANGED <<env, fs, pc, prs, refs, ints, err, out, errout, exit, log>>

CreatePresentation ==
    /\ At("Presentation")
    /\ prs' = Presentation
    /\ log' = Logged(NoRef)
    /\ ip' = ip + 1
    /\ UNCHANGED <<env, fs, pc, refs, ints, err, io>>

SetSlideWidth ==
    /\ At("set_slide_width")
    /\ prs' = [prs EXCEPT !.slide_width = Cur.n]
    /\ log' = Logged(NoRef)
    /\ ip' = ip + 1
    /\ UNCHANGED <<env, fs, pc, refs, ints, err, io>>

SetSlideHeight ==
    /\ At("set_slide_height")
    /\ prs' = [prs EXCEPT !.slide_height = Cur.n]
    /\ log' = Logged(NoRef)
    /\ ip' = ip + 1
    /\ UNCHANGED <<env, fs, pc, refs, ints, err, io>>

\* left = Inches(..), ...; slide_layout = prs.slide_layouts[n]
Let ==
    /\ At("let") \/ At("get_layout")
    /\ ints' = [ints EXCEPT ![Cur.dst] = Cur.n]
    /\ ip' = ip + 1
    /\ UNCHANGED <<env, fs, pc, prs, refs, err, io, log>>

AddSlide ==
    /\ At("add_slide")
    /\ LET layout == IF Cur.s = "" THEN Cur.n ELSE ints[Cur.s]
           d == add_slide(prs, layout)
       IN  /\ prs' = d
           /\ refs' = [refs EXCEPT ![Cur.dst] = SlideRef(Len(d.slides))]
           /\ log' = Logged(SlideRef(Len(d.slides)))
    /\ ip' = ip + 1
    /\ UNCHANGED <<env, fs, pc, ints, err, io>>

\* slide.shapes.title: the placeholder with idx 0 of that slide
GetTitle ==
    /\ At("get_title")
    /\ Bind([SlideRef(refs[Cur.src].slide) EXCEPT !.ph = 0])

\* slide.placeholders[n]
GetPlaceholder ==
    /\ At("get_placeholder")
    /\ Bind([SlideRef(refs[Cur.src].slide) EXCEPT !.ph = Cur.n])

\* slide.shapes and textbox.text_frame: a view of the object itself
GetView ==
    /\ At("get_shapes") \/ At("get_text_frame")
    /\ Bind(refs[Cur.src])

\* text_frame.paragraphs[n]
GetParagraph ==
    /\ At("get_paragraph")
    /\ Bind([refs[Cur.src] EXCEPT !.para = Cur.n + 1])

SetText ==
    /\ At("set_text")
    /\ Mutate(set_text(prs, refs[Cur.src], Cur.s))

AddTextbox ==
    /\ At("add_textbox")
    /\ LET d == add_shape(prs, refs[Cur.src], "textbox", ints)
           r == [SlideRef(refs[Cur.src].slide) EXCEPT
                    !.shape = Len(d.slides[refs[Cur.src].slide].shapes)]
       IN  /\ prs' = d
           /\ refs' = [refs EXCEPT ![Cur.dst] = r]
           /\ log' = Logged(r)
    /\ ip' = ip + 1
    /\ UNCHANGED <<env, fs, pc, ints, err, io>>

AddShape ==
    /\ At("add_shape")
    /\ LET d == add_shape(prs, refs[Cur.src], Cur.s, ints)
           r == [SlideRef(refs[Cur.src].slide) EXCEPT
                    !.shape = Len(d.slides[refs[Cur.src].slide].shapes)]
       IN  /\ prs' = d
           /\ refs' = [refs EXCEPT ![Cur.dst] = r]
           /\ log' = Logged(r)
    /\ ip' = ip + 1
    /\ UNCHANGED <<env, fs, pc, ints, err, io>>

SetWordWrap ==
    /\ At("set_word_wrap")
    /\ Mutate(set_word_wrap(prs, refs[Cur.src]))

AddParagraph ==
    /\ At("add_paragraph")
    /\ LET s == refs[Cur.src]
           d == add_paragraph(prs, s)
           r == [s EXCEPT !.para = Len(d.slides[s.slide].shapes[s.shape].paras)]
       IN  /\ prs' = d
           /\ refs' = [refs EXCEPT ![Cur.dst] = r]
           /\ log' = Logged(r)
    /\ ip' = ip + 1
    /\ UNCHANGED <<env, fs, pc, ints, err, io>>

SetFontSize ==
    /\ At("set_font_size")
    /\ Mutate(set_font_size(prs, refs[Cur.src], Cur.n))

SetFontBold ==
    /\ At("set_font_bold")
    /\ Mutate(set_font_bold(prs, refs[Cur.src]))

SetLevel ==
    /\ At("set_level")
    /\ Mutate(set_level(prs, refs[Cur.src], Cur.n))

FillSolid ==
    /\ At("fill_solid")
    /\ Mutate(fill_solid(prs, refs[Cur.src]))

SetFillRgb ==
    /\ At("set_fill_rgb")
    /\ Mutate(set_fill_rgb(prs, refs[Cur.src], Cur.rgb))

SetLineRgb ==
    /\ At("set_line_rgb")
    /\ Mutate(set_line_rgb(prs, refs[Cur.src], Cur.rgb))

SetLineWidth ==
    /\ At("set_line_width")
    /\ Mutate(set_line_width(prs, refs[Cur.src], Cur.n))

\* prs.save(path) returns: the path holds the package of the document.
SaveReturns ==
    /\ At("save")
    /\ \E k \in 0..Len(prs.slides) :
         LET r == save(fs[Cur.s], prs, disk, run, k)
         IN  /\ r.cls = ""
             /\ fs' = [fs EXCEPT ![Cur.s] = r.file]
    /\ log' = Logged(NoRef)
    /\ ip' = ip + 1
    /\ UNCHANGED <<env, pc, prs, refs, ints, err, io>>

\* prs.save(path) raises, leaving at the path whatever it got to write.
SaveRaises ==
    /\ At("save")
    /\ \E k \in 0..Len(prs.slides) :
         LET r == save(fs[Cur.s], prs, disk, run, k)
         IN  /\ r.cls # ""
             /\ fs' = [fs EXCEPT ![Cur.s] = r.file]
             /\ err' = [cls |-> r.cls, msg |-> r.msg, line |-> Cur.line]
    /\ log' = Logged(NoRef)
    /\ pc' = "raised"
    /\ UNCHANGED <<env, ip, prs, refs, ints, io>>

WriteStdout ==
    /\ At("print")
    /\ out' = Append(out, PrintLine(script, Cur.s, prs))
    /\ ip' = ip + 1
    /\ UNCHANGED <<env, fs, pc, prs, refs, ints, err, errout, exit, encoding,
                   log>>

\* return output_path
Return ==
    /\ At("return")
    /\ ip' = ip + 1
    /\ UNCHANGED <<env, fs, pc, prs, refs, ints, err, io, log>>

\* Statements that call into the library on the document being built.
LibraryOps ==
    {"Presentation", "set_slide_width", "set_slide_height", "get_layout",
     "add_slide", "get_title", "get_placeholder", "get_shapes",
     "get_text_frame", "get_paragraph", "set_text", "add_textbox",
     "add_shape", "set_word_wrap", "add_paragraph", "set_font_size",
     "set_font_bold", "set_level", "fill_solid", "set_fill_rgb",
     "set_line_rgb", "set_line_width"}

\* A library call raises instead of returning; it has changed nothing.
LibraryRaises ==
    /\ pc = "running" /\ ip <= Len(Prog(script))
    /\ Cur.op \in LibraryOps
    /\ \E cls \in ErrClasses, msg \in Msgs :
         err' = [cls |-> cls, msg |-> msg, line |-> Cur.line]
    /\ pc' = "raised"
    /\ UNCHANGED <<env, fs, ip, prs, refs, ints, io, log>>

\* script A, lines 94-96
HandleImportError ==
    /\ pc = "raised"
    /\ InTry(script, err.line)
    /\ IsImportError(err.cls)
    /\ out' = except_ImportError(out)
    /\ fs' = handler_fs(fs, script)
    /\ exit' = 0
    /\ pc' = "done"
    /\ UNCHANGED <<env, ip, prs, refs, ints, err, errout, encoding, log>>

\* script A, lines 97-100
HandleException ==
    /\ pc = "raised"
    /\ InTry(script, err.line)
    /\ ~IsImportError(err.cls)
    /\ out' = except_Exception(err, out)
    /\ errout' = Append(errout, Traceback(err))
    /\ fs' = handler_fs(fs, script)
    /\ exit' = 0
    /\ pc' = "done"
    /\ UNCHANGED <<env, ip, prs, refs, ints, err, encoding, log>>

\* No enclosing try: the interpreter reports the exception and exits 1.
Uncaught ==
    /\ pc = "raised"
    /\ ~InTry(script, err.line)
    /\ errout' = Append(errout, Traceback(err))
    /\ exit' = 1
    /\ pc' = "done"
    /\ UNCHANGED <<env, fs, ip, prs, refs, ints, err, out, encoding, log>>

\* The last statement has run: the interpreter exits 0.
ExitNormally ==
    /\ pc = "running" /\ ip > Len(Prog(script))
    /\ exit' = 0
    /\ pc' = "done"
    /\ UNCHANGED <<env, fs, ip, prs, refs, ints, err, out, errout, encoding,
                   log>>

\* The same script is invoked again from the same working directory: a
\* new process, the file system as the previous one left it.
Rerun ==
    /\ pc = "done" /\ run < MaxRuns
    /\ run' = run + 1
    /\ disk' \in Disks
    /\ pc' = "running"
    /\ ip' = 1
    /\ prs' = NoPrs
    /\ refs' = [v \in RefNames |-> NoRef]
    /\ ints' = [v \in IntNames |-> 0]
    /\ err' = NoErr
    /\ out' = <<>>
    /\ errout' = <<>>
    /\ exit' = -1
    /\ encoding' = "locale"
    /\ log' = <<>>
    /\ UNCHANGED <<script, installed, fs>>

Next ==
    \/ ImportOk \/ ImportFails \/ WrapStdout
    \/ CreatePresentation \/ SetSlideWidth \/ SetSlideHeight
    \/ Let \/ AddSlide \/ GetTitle \/ GetPlaceholder \/ GetView
    \/ GetParagraph \/ SetText \/ AddTextbox \/ AddShape \/ SetWordWrap
    \/ AddParagraph \/ SetFontSize \/ SetFontBold \/ SetLevel
    \/ FillSolid \/ SetFillRgb \/ SetLineRgb \/ SetLineWidth
    \/ SaveReturns \/ SaveRaises \/ WriteStdout \/ Return
    \/ LibraryRaises
    \/ HandleImportError \/ HandleException \/ Uncaught
    \/ ExitNormally \/ Rerun

Spec == Init /\ [][Next]_vars

\* ================================================================= claims
Done == pc = "done"

ThePath == OutputPath(script)

TheFile == fs[ThePath]

SaveLine == Prog(script)[CHOOSE i \in 1..Len(Prog(script)) :
                            Prog(script)[i].op = "save"].line

NCalls(l, op) == Cardinality({i \in 1..Len(l) : l[i].op = op})

ReachedSave == NCalls(log, "save") >= 1

SaveReturned == ReachedSave /\ err = NoErr

SaveFailed == ReachedSave /\ err # NoErr

IsSuccessLine(l) ==
    \/ l[1] = "[OK] Successfully created test PPTX file: "
    \/ l = <<"simple.pptx", " created successfully">>

IsMissingDependencyLine(l) == l = <<"[ERROR] Need to install python-pptx">>

IsInstallHintLine(l) == l = <<"   Run: pip install python-pptx">>

IsGeneralFailureLine(l) == l[1] = "[ERROR] Failed to create file: "

IsSlideCountLine(l) == l[1] = "   Slide count: "

Mentions(l, s) == \E j \in 1..Len(l) : l[j] = s

Printed(P(_)) == \E i \in 1..Len(out) : P(out[i])

SuccessPrinted == Printed(IsSuccessLine)

ErrorPrinted ==
    Printed(IsMissingDependencyLine) \/ Printed(IsGeneralFailureLine)

\* ---------------------------------------------------------------------- C1
\* C1 (as stated): in either script, a run in which pptx cannot be imported
\* ends with exit status 0 having printed the missing-dependency message
\* and the install hint.
C1_MissingDependencyReported ==
    (Done /\ err.cls = "ModuleNotFoundError")
        => /\ exit = 0
           /\ Printed(IsMissingDependencyLine)
           /\ Printed(IsInstallHintLine)

\* ---------------------------------------------------------------------- C2
\* C2 (as stated): in either script, a run in which a step raises an error
\* other than a missing dependency ends with exit status 0 having printed a
\* general-failure line that contains the error's message.
C2_EveryFailureExitsZero ==
    (Done /\ err # NoErr /\ ~IsImportError(err.cls))
        => /\ exit = 0
           /\ \E i \in 1..Len(out) :
                IsGeneralFailureLine(out[i]) /\ Mentions(out[i], err.msg)

\* C2 (amended): in scripts/create-test-pptx.py a step of create_test_pptx()
\* raising an Exception that is not an ImportError ends the run with exit
\* status 0 after a general-failure line containing the error's message
\* (and a trace on stderr); tests/fixtures/create_simple_pptx.py has no
\* try/except, so there the error is uncaught: the run ends with exit
\* status 1, a trace on stderr and no general-failure line.
C2_FailureDispatch ==
    (Done /\ err # NoErr /\ ~IsImportError(err.cls))
        => IF script = "A"
           THEN /\ exit = 0
                /\ \E i \in 1..Len(out) :
                     IsGeneralFailureLine(out[i]) /\ Mentions(out[i], err.msg)
                /\ errout = <<Traceback(err)>>
           ELSE /\ exit = 1
                /\ ~Printed(IsGeneralFailureLine)
                /\ errout = <<Traceback(err)>>

C2_Witness ==
    /\ Done /\ script = "A" /\ err.cls = "OSError" /\ err.line = 83
    /\ exit = 0
    /\ out = << <<"[ERROR] Failed to create file: ",
                  "No space left on device">> >>

\* ---------------------------------------------------------------------- C3
\* C3: whenever the success line has been printed, the save call has been
\* made and has returned without error and the file at the script's fixed
\* path exists and is non-empty; a run whose save failed has not printed
\* the success line.
C3_SuccessOnlyAfterSave ==
    /\ SuccessPrinted =>
          /\ SaveReturned
          /\ TheFile.exists
          /\ Len(TheFile.parts) > 0
    /\ SaveFailed => ~SuccessPrinted

C3_Witness ==
    /\ SuccessPrinted /\ Done /\ exit = 0
    /\ TheFile.exists /\ Len(TheFile.parts) = 3

\* ---------------------------------------------------------------------- C4
\* C4 (as stated): a terminated run has printed exactly one status outcome
\* matching how it ended: after success, a success line and output naming
\* the path and the slide count, and no error line; after failure, an error
\* line (missing dependency or general failure) and no success line.
C4_ExactlyOneStatusOutcome ==
    Done =>
        IF err = NoErr
        THEN /\ \E i \in 1..Len(out) :
                  IsSuccessLine(out[i]) /\ Mentions(out[i], ThePath)
             /\ Printed(IsSlideCountLine)
             /\ ~ErrorPrinted
        ELSE /\ ErrorPrinted
             /\ ~SuccessPrinted

\* ---------------------------------------------------------------------- C5
\* C5: when the save call is reached the document holds exactly 2 slides;
\* the file a returned save leaves reports 2 slides when reopened; the
\* slide count create-test-pptx.py prints is 2.
C5_TwoSlides ==
    /\ (At("save") \/ ReachedSave) => Len(prs.slides) = 2
    /\ SaveReturned => Len(Reopen(TheFile.parts).slides) = 2
    /\ \A i \in 1..Len(out) :
          IsSlideCountLine(out[i]) => out[i] = <<"   Slide count: ", "2">>

C5_Witness ==
    /\ SaveReturned /\ Done
    /\ Len(Reopen(TheFile.parts).slides) = 2
    /\ (script = "A" => Printed(IsSlideCountLine))

\* ---------------------------------------------------------------------- C6
\* C6: whatever the output path holds (nothing, a foreign or truncated
\* file, the file of an earlier run), a save call the directory permits
\* returns without error; a returned save leaves at the path exactly the
\* package of this run's document; and when the path held the complete
\* file of an earlier run of the script, the document read back after this
\* run equals the one read back before it (page size, slide count and
\* order, texts, shape attributes), although the bytes differ.
C6_RerunOverwrites ==
    [][ At("save") =>
          /\ disk = "ok" => (pc' = "running" /\ err' = NoErr)
          /\ pc' = "running" =>
                /\ fs'[ThePath] = File(Package(prs, run))
                /\ (Complete(TheFile) /\ TheFile.parts[1].stamp >= 1) =>
                      /\ Reopen(fs'[ThePath].parts) = Reopen(TheFile.parts)
                      /\ fs'[ThePath] # TheFile
      ]_vars

C6_Witness ==
    /\ run = 2 /\ Done /\ exit = 0 /\ SuccessPrinted
    /\ Complete(TheFile) /\ TheFile.parts[1].stamp = 2
    /\ Reopen(TheFile.parts) = prs

\* ---------------------------------------------------------------------- C7
\* C7: within one run the document is created at most once and the save
\* call is made at most once, exactly once in a terminated run whose
\* construction raised nothing; only the script's own path is ever
\* written; once an exception has been raised no library call is made and
\* neither document nor file system changes; once the save call has been
\* made the document does not change.
C7_OnceAndNoRetry ==
    [][ /\ NCalls(log', "Presentation") <= 1
        /\ NCalls(log', "save") <= 1
        /\ (pc' = "done" /\ (err' = NoErr \/ err'.line = SaveLine))
               => NCalls(log', "save") = 1
        /\ \A q \in Paths \ {ThePath} : fs'[q] = fs[q]
        /\ (err # NoErr /\ run' = run) =>
               (prs' = prs /\ fs' = fs /\ log' = log /\ err' = err)
        /\ (ReachedSave /\ run' = run) => prs' = prs
      ]_vars

C7_Witness ==
    /\ Done /\ NCalls(log, "save") = 1 /\ NCalls(log, "Presentation") = 1
    /\ err.line = SaveLine

\* ---------------------------------------------------------------------- C8
\* C8: no step other than the save call changes the file system, so what
\* a failed save left at the output path is what the path holds at
\* termination; a save that fails before touching the path leaves the
\* prior content.
C8_NoCleanup ==
    [][ /\ ~At("save") => fs' = fs
        /\ (At("save") /\ disk = "unwritable") => fs' = fs
      ]_vars

C8_Witness ==
    /\ Done /\ SaveFailed /\ disk = "full"
    /\ TheFile.exists /\ ~Complete(TheFile) /\ Len(TheFile.parts) = 2
    /\ TheFile.parts[1].stamp = run

\* ---------------------------------------------------------------------- C9
TextBox1 ==
    [kind |-> "textbox", left |-> 914400, top |-> 1828800,
     width |-> 2743200, height |-> 914400, word_wrap |-> "True",
     paras |-> <<[text |-> "This is a test text box", size |-> 228600,
                  bold |-> "None", level |-> 0]>>,
     fill |-> "None", fill_rgb |-> <<>>, line_rgb |-> <<>>,
     line_width |-> -1]

Rectangle ==
    [kind |-> "RECTANGLE", left |-> 4572000, top |-> 1828800,
     width |-> 1828800, height |-> 1371600, word_wrap |-> "None",
     paras |-> <<[text |-> "", size |-> -1, bold |-> "None", level |-> 0]>>,
     fill |-> "solid", fill_rgb |-> <<112, 192, 0>>,
     line_rgb |-> <<0, 0, 0>>, line_width |-> 12700]

TextBox2 ==
    [kind |-> "textbox", left |-> 914400, top |-> 3657600,
     width |-> 5486400, height |-> 914400, word_wrap |-> "None",
     paras |-> <<[text |-> "Element 2: Another text box", size |-> 177800,
                  bold |-> "True", level |-> 0]>>,
     fill |-> "None", fill_rgb |-> <<>>, line_rgb |-> <<>>,
     line_width |-> -1]

\* No attribute of any object is assigned twice by one run.
AssignedOnce ==
    \A i, j \in 1..Len(log) :
        (log[i].op = log[j].op /\ log[i].ref = log[j].ref) => i = j

FirstTitle ==
    IF script = "A" THEN "PPTX to JSON Conversion Test"
    ELSE "U+6D4B U+8BD5 U+6F14 U+793A U+6587 U+7A3F"

TitleOf(i) == [slide |-> i, ph |-> 0, shape |-> 0, para |-> 0]

\* C10: when save is reached the first slide of the sequence is the one
\* made from layout 0 and the second the content slide (layout 5 in
\* create-test-pptx.py, 1 in create_simple_pptx.py); the first slide's
\* title is the literal assigned at construction, it has been assigned
\* exactly once, and the title assigned on the second slide is on the
\* second slide.
C10_TitleSlideFirst ==
    (At("save") \/ ReachedSave) =>
        /\ prs.slides[1].layout = 0
        /\ prs.slides[2].layout = (IF script = "A" THEN 5 ELSE 1)
        /\ prs.slides[1].ph[0] = FirstTitle
        /\ prs.slides[2].ph[0] # ""
        /\ Cardinality({i \in 1..Len(log) :
              log[i].op = "set_text" /\ log[i].ref = TitleOf(1)}) = 1

C10_Witness ==
    /\ At("save") /\ script = "B"
    /\ prs.slides[1].ph[0] = "U+6D4B U+8BD5 U+6F14 U+793A U+6587 U+7A3F"
    /\ prs.slides[2].ph[0] = "U+4E3B U+8981 U+5185 U+5BB9"

====
